---- MODULE Spec2Model ----
(***************************************************************************)
(* Model of inflation_app.py, a Streamlit script.  One script run executes *)
(* the file top to bottom: load and sort the CSV (8-11), the headline      *)
(* 10-year rate (51-60), the comparison-year selectbox (78-80), the year   *)
(* CPI lookup (83-86), the amount inputs (89-118) and the Predict block    *)
(* (121-165).  A widget interaction reruns the script.                     *)
(*                                                                         *)
(* Dates are (year, month) pairs: the series is monthly and                *)
(* pd.DateOffset(years=10) keeps the month.  CPI values and amounts are    *)
(* integers; every quotient the script forms is kept as an exact fraction  *)
(* [n, d] in lowest terms; d = 0 is numpy's non-finite result of a         *)
(* division by zero (n = 1: inf, n = -1: -inf, n = 0: nan).  Float         *)
(* rounding is not modelled.                                               *)
(***************************************************************************)
EXTENDS Integers, Sequences, FiniteSets, TLC

\* ------------------------------------------------------------- bounds
MaxRows == 3
NumCats == 2

\* Input domains of the CSV file, the clock and the amount widgets.  The
\* file's dates: two in each of two adjacent years, one a decade later.
InputDates == {<<2014, 3>>, <<2014, 9>>, <<2015, 3>>, <<2015, 9>>, <<2024, 9>>}
CpiValues == {100, 400}
CorruptCpiValues == {-100, 0, 400}
NowYears == {2025, 2034}
AmountValues == {10000, 60000}

\* ------------------------------------------------- program constants
YearsBack == 10
DefaultYearsBack == 10
Percent == 100
DefaultAmount == 10000
MinAmount == 0

AllCategories == <<"Food", "Transport", "Housing", "Clothing", "Education", "Health", "Electronics">>
Categories == {AllCategories[i] : i \in 1..NumCats}

VARIABLES csv, now, pc, first, sel, clicked, df, latest_cpi, past_cpi,
          cpi_change, metric, years, selectbox, comparison_year,
          past_cpi_year, year_error, category_inputs, total_today,
          total_past, past_values, error

vars == <<csv, now, pc, first, sel, clicked, df, latest_cpi, past_cpi,
          cpi_change, metric, years, selectbox, comparison_year,
          past_cpi_year, year_error, category_inputs, total_today,
          total_past, past_values, error>>

\* ------------------------------------------------------------- dates
MkDate(y, m) == [year |-> y, month |-> m]

DateLE(a, b) == a.year < b.year \/ (a.year = b.year /\ a.month <= b.month)

DateOffsetYears(d, n) == [year |-> d.year - n, month |-> d.month]

\* --------------------------------------------------------- fractions
Abs(x) == IF x < 0 THEN -x ELSE x

Sign(x) == IF x < 0 THEN -1 ELSE IF x > 0 THEN 1 ELSE 0

RECURSIVE Gcd(_, _)
Gcd(a, b) == IF b = 0 THEN a ELSE Gcd(b, a % b)

\* The value n/d, one representation per value.
Rat(n, d) ==
  IF d = 0 THEN [n |-> Sign(n), d |-> 0]
  ELSE LET g == Gcd(Abs(n), Abs(d))
       IN [n |-> Sign(d) * (n \div g), d |-> Abs(d) \div g]

RatOfInt(i) == Rat(i, 1)

RatSub(a, b) == Rat(a.n * b.d - b.n * a.d, a.d * b.d)

RatMul(a, b) == Rat(a.n * b.n, a.d * b.d)

\* numpy true division: a zero divisor gives inf, -inf or nan, no exception.
RatDiv(a, b) == Rat(a.n * b.d, a.d * b.n)

RatEq(a, b) == a.d # 0 /\ b.d # 0 /\ a = b

IsFinite(a) == a.d # 0

\* --------------------------------------------------- pandas helpers
RECURSIVE InsertByDate(_, _)
InsertByDate(r, s) ==
  IF s = <<>> THEN <<r>>
  ELSE IF DateLE(r.Date, Head(s).Date) THEN <<r>> \o s
  ELSE <<Head(s)>> \o InsertByDate(r, Tail(s))

\* Mutant: the frame is left in file order (no sort_values).
SortValuesSkipped(s) == s

RECURSIVE SortValues(_)
SortValues(s) ==
  IF s = <<>> THEN <<>> ELSE InsertByDate(Head(s), SortValues(Tail(s)))

RECURSIVE MaxDate(_)
MaxDate(s) ==
  IF Len(s) = 1 THEN s[1].Date
  ELSE LET m == MaxDate(Tail(s))
       IN IF DateLE(m, s[1].Date) THEN s[1].Date ELSE m

OnOrBefore(s, t) == SelectSeq(s, LAMBDA r : DateLE(r.Date, t))

\* Mutant: the year mask is dropped, every row is averaged.
InYearUnmasked(s, y) == s

InYear(s, y) == SelectSeq(s, LAMBDA r : r.Date.year = y)

RECURSIVE SumCpi(_)
SumCpi(s) == IF s = <<>> THEN 0 ELSE Head(s).CPI + SumCpi(Tail(s))

Mean(s) == Rat(SumCpi(s), Len(s))

\* Mutant: no unique(), one entry per row.
UniqueSkipped(s) == s

RECURSIVE Unique(_)
Unique(s) ==
  IF s = <<>> THEN <<>>
  ELSE LET rest == Unique(SubSeq(s, 1, Len(s) - 1))
           x == s[Len(s)]
       IN IF \E i \in 1..Len(rest) : rest[i] = x THEN rest ELSE Append(rest, x)

YearColumn(s) == [i \in 1..Len(s) |-> s[i].Date.year]

RECURSIVE InsertDesc(_, _)
InsertDesc(x, s) ==
  IF s = <<>> THEN <<x>>
  ELSE IF x >= Head(s) THEN <<x>> \o s
  ELSE <<Head(s)>> \o InsertDesc(x, Tail(s))

RECURSIVE SortReverse(_)
SortReverse(s) ==
  IF s = <<>> THEN <<>> ELSE InsertDesc(Head(s), SortReverse(Tail(s)))

\* list.index: the 0-based position of the first occurrence, -1 for ValueError.
ListIndex(s, x) ==
  IF \E i \in 1..Len(s) : s[i] = x
  THEN (CHOOSE i \in 1..Len(s) : s[i] = x /\ \A j \in 1..(i - 1) : s[j] # x) - 1
  ELSE -1

\* years[1:]
Slice1(s) == SubSeq(s, 2, Len(s))

\* ---------------------------------------------------- store queries
\* Mutant: iloc[0] of the rows on or before the target instead of iloc[-1].
NearestFirstOnOrBefore(s, t) ==
  LET closest_past == OnOrBefore(s, t)
  IN IF closest_past # <<>> THEN closest_past[1].CPI ELSE s[1].CPI

\* lines 52-57: the CPI on or before the target date, else the first row's.
NearestOnOrBefore(s, t) ==
  LET closest_past == OnOrBefore(s, t)
  IN IF closest_past # <<>> THEN closest_past[Len(closest_past)].CPI
     ELSE s[1].CPI

\* line 59
PercentChange(new, old) ==
  RatMul(RatDiv(RatSub(new, old), old), RatOfInt(Percent))

\* line 51
LatestCpi(s) == s[Len(s)].CPI

\* lines 52-57
PastCpi(s) == NearestOnOrBefore(s, DateOffsetYears(MaxDate(s), YearsBack))

\* lines 51-59 on a non-empty frame
HeadlineRate(s) == PercentChange(RatOfInt(LatestCpi(s)), RatOfInt(PastCpi(s)))

\* line 84
CpiForYear(s, y) == Mean(InYear(s, y))

\* lines 78-79
YearList(s) == SortReverse(Unique(YearColumn(s)))

\* Mutant: the two CPI values swapped.
ConvertInverted(amount, cpi_to, cpi_from) ==
  RatDiv(RatMul(amount, cpi_from), cpi_to)

\* line 123 / 147 / 152
Convert(amount, cpi_to, cpi_from) == RatDiv(RatMul(amount, cpi_to), cpi_from)

RECURSIVE SumValues(_, _)
SumValues(f, S) ==
  IF S = {} THEN 0
  ELSE LET c == CHOOSE x \in S : TRUE
       IN f[c] + SumValues(f, S \ {c})

\* ------------------------------------------------------------ inputs
Dates == {MkDate(d[1], d[2]) : d \in InputDates}

InputYears == {d[1] : d \in InputDates}

RowsOver(cpis) == [Date : Dates, CPI : cpis]

\* The files considered: up to MaxRows rows in any order, one row per date
\* (with two rows of one date, which of them sort_values puts last is not
\* fixed, and "the observation with the maximum date" names no single row).
SeriesOver(cpis) ==
  {s \in UNION {[1..n -> RowsOver(cpis)] : n \in 0..MaxRows} :
     \A i, j \in 1..Len(s) : i # j => s[i].Date # s[j].Date}

\* An unbound name, or None, is <<>>; a bound value v is <<v>>.
Unbound == <<>>
NoSelectbox == [shown |-> FALSE, options |-> <<>>, index |-> 0]
NoInputs == [c \in Categories |-> 0]
NoValues == [c \in Categories |-> Unbound]

Locals ==
  /\ latest_cpi = 0
  /\ past_cpi = 0
  /\ cpi_change = Unbound
  /\ metric = FALSE
  /\ years = <<>>
  /\ selectbox = NoSelectbox
  /\ comparison_year = Unbound
  /\ past_cpi_year = Unbound
  /\ year_error = FALSE
  /\ category_inputs = NoInputs
  /\ total_today = 0
  /\ total_past = Unbound
  /\ past_values = NoValues
  /\ error = "none"

InitWith(cpis) ==
  /\ csv \in SeriesOver(cpis)
  /\ now \in NowYears
  /\ pc = "load"
  /\ first = TRUE
  /\ sel = -1
  /\ clicked = FALSE
  /\ df = <<>>
  /\ Locals

Init == InitWith(CpiValues)

InitCorrupt == InitWith(CorruptCpiValues)

\* ----------------------------------------------------------- actions
\* lines 8-11: read the CSV, parse the dates, sort by Date in place.
Load ==
  /\ pc = "load"
  /\ df' = SortValues(csv)
  /\ pc' = "headline"
  /\ UNCHANGED <<csv, now, first, sel, clicked, latest_cpi, past_cpi,
                 cpi_change, metric, years, selectbox, comparison_year,
                 past_cpi_year, year_error, category_inputs, total_today,
                 total_past, past_values, error>>

\* Mutant: an empty frame shows a zero rate instead of raising.
HeadlineDefaultsOnEmpty ==
  /\ pc = "headline"
  /\ latest_cpi' = IF df = <<>> THEN 0 ELSE LatestCpi(df)
  /\ past_cpi' = IF df = <<>> THEN 0 ELSE PastCpi(df)
  /\ cpi_change' = IF df = <<>> THEN <<RatOfInt(0)>> ELSE <<HeadlineRate(df)>>
  /\ metric' = TRUE
  /\ pc' = "select"
  /\ UNCHANGED <<csv, now, first, sel, clicked, df, years, selectbox,
                 comparison_year, past_cpi_year, year_error, category_inputs,
                 total_today, total_past, past_values, error>>

\* lines 51-60: df["CPI"].iloc[-1] raises IndexError on an empty frame.
Headline ==
  /\ pc = "headline"
  /\ IF df = <<>>
     THEN /\ error' = "IndexError"
          /\ pc' = "idle"
          /\ UNCHANGED <<latest_cpi, past_cpi, cpi_change, metric>>
     ELSE /\ latest_cpi' = LatestCpi(df)
          /\ past_cpi' = PastCpi(df)
          /\ cpi_change' = <<HeadlineRate(df)>>
          /\ metric' = TRUE
          /\ pc' = "select"
          /\ UNCHANGED error
  /\ UNCHANGED <<csv, now, first, sel, clicked, df, years, selectbox,
                 comparison_year, past_cpi_year, year_error, category_inputs,
                 total_today, total_past, past_values>>

\* line 80: the position handed to st.selectbox as index=.
DefaultIndex(ys, yr) == ListIndex(ys, yr - DefaultYearsBack)

\* st.selectbox: the option at the user's position, else at index; None
\* when there are no options.
SelectboxValue(opts, idx, chosen) ==
  IF Len(opts) = 0 THEN Unbound
  ELSE <<opts[(IF chosen = -1 THEN idx ELSE chosen) + 1]>>

\* lines 78-80: list.index raises ValueError when the year is absent;
\* st.selectbox raises StreamlitAPIException when index is not a position
\* of a non-empty options list.
YearSelectionStep ==
  /\ pc = "select"
  /\ LET ys == YearList(df)
         opts == Slice1(ys)
         idx == DefaultIndex(ys, now)
     IN /\ years' = ys
        /\ IF idx = -1
           THEN /\ error' = "ValueError"
                /\ pc' = "idle"
                /\ UNCHANGED <<selectbox, comparison_year>>
           ELSE IF Len(opts) > 0 /\ ~(0 <= idx /\ idx < Len(opts))
           THEN /\ error' = "StreamlitAPIException"
                /\ pc' = "idle"
                /\ UNCHANGED <<selectbox, comparison_year>>
           ELSE /\ selectbox' = [shown |-> TRUE, options |-> opts, index |-> idx]
                /\ comparison_year' = SelectboxValue(opts, idx, sel)
                /\ pc' = "lookup"
                /\ UNCHANGED error
  /\ UNCHANGED <<csv, now, first, sel, clicked, latest_cpi, past_cpi,
                 cpi_change, metric, past_cpi_year, year_error,
                 category_inputs, total_today, total_past, past_values>>

\* Mutant: the years are taken after sorting the frame itself, newest first.
YearSelectionSortsFrame ==
  /\ YearSelectionStep
  /\ df' = [i \in 1..Len(df) |-> df[Len(df) + 1 - i]]

\* Lines 78-80 read the frame (dt.year.unique() copies) and leave it alone.
YearSelection == YearSelectionStep /\ UNCHANGED df

\* line 83: comparison_year in df["Date"].dt.year.values (False for None).
YearPresent(s, y) ==
  y # Unbound /\ \E i \in 1..Len(s) : s[i].Date.year = y[1]

\* lines 83-86: the else branch shows st.error and binds nothing.
YearLookup ==
  /\ pc = "lookup"
  /\ IF YearPresent(df, comparison_year)
     THEN /\ past_cpi_year' = <<CpiForYear(df, comparison_year[1])>>
          /\ UNCHANGED year_error
     ELSE /\ year_error' = TRUE
          /\ UNCHANGED past_cpi_year
  /\ pc' = "inputs"
  /\ UNCHANGED <<csv, now, first, sel, clicked, df, latest_cpi, past_cpi,
                 cpi_change, metric, years, selectbox, comparison_year,
                 category_inputs, total_today, total_past, past_values,
                 error>>

\* lines 89-118: one number_input per category, value=10000.0 until edited.
Inputs ==
  /\ pc = "inputs"
  /\ \E a \in [Categories -> AmountValues] :
       /\ first => \A c \in Categories : a[c] = DefaultAmount
       /\ \A c \in Categories : a[c] >= MinAmount
       /\ category_inputs' = a
  /\ pc' = "predict"
  /\ UNCHANGED <<csv, now, first, sel, clicked, df, latest_cpi, past_cpi,
                 cpi_change, metric, years, selectbox, comparison_year,
                 past_cpi_year, year_error, total_today, total_past,
                 past_values, error>>

\* lines 121-165: reading an unbound past_cpi_year raises NameError.
Predict ==
  /\ pc = "predict"
  /\ pc' = "idle"
  /\ IF ~clicked
     THEN UNCHANGED <<total_today, total_past, past_values, error>>
     ELSE LET total == SumValues(category_inputs, Categories)
          IN /\ total_today' = total
             /\ IF past_cpi_year = Unbound
                THEN /\ error' = "NameError"
                     /\ UNCHANGED <<total_past, past_values>>
                ELSE /\ total_past' = <<Convert(RatOfInt(total), past_cpi_year[1],
                                                RatOfInt(latest_cpi))>>
                     /\ past_values' =
                          [c \in Categories |->
                             <<Convert(RatOfInt(category_inputs[c]),
                                       past_cpi_year[1], RatOfInt(latest_cpi))>>]
                     /\ UNCHANGED error
  /\ UNCHANGED <<csv, now, first, sel, clicked, df, latest_cpi, past_cpi,
                 cpi_change, metric, years, selectbox, comparison_year,
                 past_cpi_year, year_error, category_inputs>>

\* The widgets of lines 80-121 exist once the run has passed line 121.
WidgetsRendered == pc = "idle" /\ error \in {"none", "NameError"}

\* A widget interaction starts a new script run with fresh module globals;
\* df keeps its frame until line 8 rebinds it.
Rerun ==
  /\ pc' = "load"
  /\ first' = FALSE
  /\ latest_cpi' = 0
  /\ past_cpi' = 0
  /\ cpi_change' = Unbound
  /\ metric' = FALSE
  /\ years' = <<>>
  /\ selectbox' = NoSelectbox
  /\ comparison_year' = Unbound
  /\ past_cpi_year' = Unbound
  /\ year_error' = FALSE
  /\ category_inputs' = NoInputs
  /\ total_today' = 0
  /\ total_past' = Unbound
  /\ past_values' = NoValues
  /\ error' = "none"
  /\ UNCHANGED <<csv, now, df>>

\* The user picks an option of the comparison-year selectbox.
SelectYear ==
  /\ WidgetsRendered
  /\ \E i \in 0..(Len(selectbox.options) - 1) : sel' = i
  /\ clicked' = FALSE
  /\ Rerun

\* The user edits an amount (or a subcategory).
EditAmount ==
  /\ WidgetsRendered
  /\ clicked' = FALSE
  /\ UNCHANGED sel
  /\ Rerun

\* The user presses "Predict Past Value".
ClickPredict ==
  /\ WidgetsRendered
  /\ clicked' = TRUE
  /\ UNCHANGED sel
  /\ Rerun

Next ==
  \/ Load
  \/ Headline
  \/ YearSelection
  \/ YearLookup
  \/ Inputs
  \/ Predict
  \/ SelectYear
  \/ EditAmount
  \/ ClickPredict

Spec == Init /\ [][Next]_vars

SpecCorrupt == InitCorrupt /\ [][Next]_vars

\* -------------------------------------------------------- properties
\* The observations of the input file, as a set, whatever the row order.
Obs == {csv[i] : i \in 1..Len(csv)}

LatestObs == CHOOSE r \in Obs : \A q \in Obs : DateLE(q.Date, r.Date)

EarliestObs == CHOOSE r \in Obs : \A q \in Obs : DateLE(r.Date, q.Date)

\* The observation with the greatest date <= t, else the earliest one.
NearestObs(t) ==
  IF \E r \in Obs : DateLE(r.Date, t)
  THEN CHOOSE r \in Obs :
         /\ DateLE(r.Date, t)
         /\ \A q \in Obs : DateLE(q.Date, t) => DateLE(q.Date, r.Date)
  ELSE EarliestObs

ObsOfYear(y) == {r \in Obs : r.Date.year = y}

RECURSIVE CpiTotal(_)
CpiTotal(S) ==
  IF S = {} THEN 0
  ELSE LET r == CHOOSE x \in S : TRUE IN r.CPI + CpiTotal(S \ {r})

RECURSIVE AmountTotal(_, _)
AmountTotal(f, k) ==
  IF k = 0 THEN 0 ELSE f[AllCategories[k]] + AmountTotal(f, k - 1)

\* Every date a lookup can be asked for: the input dates and the same
\* dates ten years earlier.
TargetDates == Dates \cup {DateOffsetYears(d, YearsBack) : d \in Dates}

Loaded == pc # "load" \/ ~first

\* The frame has just been built by the load.
JustLoaded == pc = "headline"

\* A submission was served: the run passed the Predict block with the
\* button pressed.
Submitted == pc = "idle" /\ clicked

\* v = amount * (sum / cnt) / latest, as one fraction.
IsConverted(v, amount, sum, cnt, latest) ==
  /\ IsFinite(v)
  /\ v = Rat(amount * sum, cnt * latest)

\* C1: a submission for a year that has observations yields total_today =
\* the sum of the submitted amounts, total_past = total_today *
\* cpi_for_year(year) / cpi_latest, and per category amount *
\* cpi_for_year(year) / cpi_latest, cpi_latest being the CPI of the
\* observation with the maximum date; 60000 at CPI 400 is 15000 at CPI 100.
C1_ComparisonResult ==
  /\ (Submitted /\ comparison_year # Unbound
        /\ ObsOfYear(comparison_year[1]) # {}) =>
       LET rows == ObsOfYear(comparison_year[1])
           sum == CpiTotal(rows)
           cnt == Cardinality(rows)
           latest == LatestObs.CPI
       IN /\ error = "none"
          /\ total_today = AmountTotal(category_inputs, NumCats)
          /\ total_past # Unbound
          /\ IsConverted(total_past[1], total_today, sum, cnt, latest)
          /\ \A c \in Categories :
               /\ past_values[c] # Unbound
               /\ IsConverted(past_values[c][1], category_inputs[c], sum, cnt,
                              latest)
  /\ JustLoaded =>
       RatEq(Convert(RatOfInt(60000), RatOfInt(100), RatOfInt(400)),
             RatOfInt(15000))

C1_Witness ==
  /\ Submitted
  /\ Len(csv) = 3
  /\ csv[Len(csv)].Date # LatestObs.Date
  /\ comparison_year = <<2015>>
  /\ Cardinality(ObsOfYear(2015)) = 2
  /\ CpiTotal(ObsOfYear(2015)) = 500
  /\ LatestObs.CPI = 400
  /\ category_inputs["Food"] = 60000
  /\ category_inputs["Transport"] = 10000
  /\ total_today = 70000
  /\ total_past # Unbound
  /\ RatEq(total_past[1], RatOfInt(43750))
  /\ past_values["Food"] # Unbound
  /\ RatEq(past_values["Food"][1], RatOfInt(37500))

\* C2: nearest_on_or_before(target) is the observation with the greatest
\* date <= target, and the earliest observation when the target is earlier
\* than every observation; so is the lookup the headline makes.
C2_NearestOnOrBefore ==
  /\ (JustLoaded /\ csv # <<>>) =>
       \A t \in TargetDates : NearestOnOrBefore(df, t) = NearestObs(t).CPI
  /\ (pc = "select" /\ csv # <<>>) =>
       past_cpi = NearestObs(DateOffsetYears(LatestObs.Date, YearsBack)).CPI

C2_Witness ==
  /\ pc = "select"
  /\ Len(csv) = 3
  /\ LET t == DateOffsetYears(LatestObs.Date, YearsBack)
         r == NearestObs(t)
     IN /\ DateLE(r.Date, t)
        /\ r # EarliestObs
        /\ r.CPI # EarliestObs.CPI
        /\ r.CPI # LatestObs.CPI
        /\ past_cpi = r.CPI
        /\ csv[1] = r
  /\ \E t \in TargetDates :
       /\ \A q \in Obs : ~DateLE(q.Date, t)
       /\ NearestOnOrBefore(df, t) = EarliestObs.CPI

\* C3: whatever the row order of the input, the headline rate is
\* (c_latest - c_past) / c_past * 100 with c_latest the CPI of the
\* maximum-date observation and c_past the CPI of
\* nearest_on_or_before(maximum date - 10 years); the series
\* [(2015-01, 100), (2024-01, 400)] falls back to 100 and gives 300.
C3_HeadlineRate ==
  /\ (pc = "select" /\ csv # <<>>) =>
       LET latest == LatestObs
           past == NearestObs(DateOffsetYears(latest.Date, YearsBack))
       IN /\ latest_cpi = latest.CPI
          /\ past_cpi = past.CPI
          /\ cpi_change # Unbound
          /\ cpi_change[1] = Rat((latest.CPI - past.CPI) * 100, past.CPI)
  /\ JustLoaded =>
       \A s \in {<<[Date |-> MkDate(2015, 1), CPI |-> 100],
                   [Date |-> MkDate(2024, 1), CPI |-> 400]>>,
                 <<[Date |-> MkDate(2024, 1), CPI |-> 400],
                   [Date |-> MkDate(2015, 1), CPI |-> 100]>>} :
         /\ PastCpi(SortValues(s)) = 100
         /\ HeadlineRate(SortValues(s)) = RatOfInt(300)

C3_Witness ==
  /\ pc = "select"
  /\ Len(csv) = 3
  /\ csv[1] = LatestObs
  /\ csv[3] = EarliestObs
  /\ latest_cpi = 400
  /\ past_cpi = 100
  /\ csv[2].CPI = 400
  /\ ~DateLE(EarliestObs.Date, DateOffsetYears(LatestObs.Date, YearsBack))
  /\ cpi_change = <<RatOfInt(300)>>

\* C4: for a year that has observations, cpi_for_year is the arithmetic
\* mean of the CPI of exactly the observations dated in that year;
\* (2015-03, 90) and (2015-09, 110) give 100 whatever other years hold.
C4_YearMean ==
  /\ JustLoaded =>
       \A y \in InputYears :
         ObsOfYear(y) # {} =>
           CpiForYear(df, y) = Rat(CpiTotal(ObsOfYear(y)), Cardinality(ObsOfYear(y)))
  /\ (pc = "inputs" /\ past_cpi_year # Unbound) =>
       /\ comparison_year # Unbound
       /\ ObsOfYear(comparison_year[1]) # {}
       /\ past_cpi_year[1] = Rat(CpiTotal(ObsOfYear(comparison_year[1])),
                                 Cardinality(ObsOfYear(comparison_year[1])))
  /\ JustLoaded =>
       CpiForYear(<<[Date |-> MkDate(2015, 3), CPI |-> 90],
                    [Date |-> MkDate(2015, 9), CPI |-> 110],
                    [Date |-> MkDate(2024, 3), CPI |-> 400]>>, 2015) = RatOfInt(100)

C4_Witness ==
  /\ pc = "inputs"
  /\ comparison_year = <<2015>>
  /\ Cardinality(ObsOfYear(2015)) = 2
  /\ CpiTotal(ObsOfYear(2015)) = 500
  /\ Cardinality(ObsOfYear(2024)) = 1
  /\ CpiTotal(ObsOfYear(2024)) = 100
  /\ past_cpi_year = <<RatOfInt(250)>>

\* The years that have an observation, and the most recent of them.
ObsYears == {r.Date.year : r \in Obs}

OfferedYears == {y \in ObsYears : \E z \in ObsYears : z > y}

IsOffer(opts) ==
  /\ \A i, j \in 1..Len(opts) : i < j => opts[i] > opts[j]
  /\ {opts[i] : i \in 1..Len(opts)} = OfferedYears

\* C6: years_for_selection holds every calendar year that has an
\* observation exactly once, strictly descending, without the most recent
\* year, and no other year.
C6_YearsForSelection ==
  /\ JustLoaded => IsOffer(Slice1(YearList(df)))
  /\ pc = "lookup" =>
       /\ selectbox.shown
       /\ selectbox.options = Slice1(years)
       /\ IsOffer(selectbox.options)
  /\ (pc = "idle" /\ error \in {"ValueError", "StreamlitAPIException"}) =>
       IsOffer(Slice1(years))

C6_Witness ==
  /\ pc = "lookup"
  /\ Len(csv) = 3
  /\ csv[1].Date.year = 2014
  /\ csv[2].Date.year = 2024
  /\ csv[3].Date.year = 2014
  /\ years = <<2024, 2014>>
  /\ selectbox.options = <<2014>>

\* C8: a run on an empty series halts at the first query: no headline
\* rate is displayed, no year selection is offered, no comparison is
\* served, and the run ends in the failure of latest().
C8_EmptySeriesHalts ==
  csv = <<>> =>
    /\ pc \in {"load", "headline", "idle"}
    /\ pc = "idle" => error = "IndexError"
    /\ ~metric
    /\ cpi_change = Unbound
    /\ ~selectbox.shown
    /\ comparison_year = Unbound
    /\ past_cpi_year = Unbound
    /\ total_past = Unbound
    /\ \A c \in Categories : past_values[c] = Unbound

C8_Witness == csv = <<>> /\ pc = "idle" /\ error = "IndexError" /\ ~metric

IsSortedByDate(s) ==
  \A i \in 1..(Len(s) - 1) : DateLE(s[i].Date, s[i + 1].Date)

\* C9: once the series is loaded and sorted no step changes it: headline
\* computations, year selections, amount entries, submissions and the
\* reruns they trigger leave the ordered observations as the load made them.
C9_SeriesImmutable ==
  [][Loaded => /\ df' = df
               /\ IsSortedByDate(df)
               /\ {df[i] : i \in 1..Len(df)} = Obs
               /\ Len(df) = Len(csv)]_vars

C9_Witness ==
  /\ ~first
  /\ Submitted
  /\ sel = 1
  /\ total_past # Unbound
  /\ Len(df) = 3
  /\ df # csv
  /\ category_inputs["Food"] = 60000

\* C5 (as stated): a submission whose comparison year has no observations
\* ends in YearNotFound and in no other error, with no result.
C5_YearNotFound ==
  (Submitted /\ csv # <<>>
     /\ (comparison_year = Unbound \/ ObsOfYear(comparison_year[1]) = {})) =>
    /\ year_error
    /\ error = "none"
    /\ total_past = Unbound

\* C7 (as stated): a divisor CPI that is zero or negative fails the
\* computation, which yields no value: the headline rate when the past CPI
\* is not positive, the conversion when the latest CPI is not positive.
C7_DivisionByZero ==
  /\ (pc = "select" /\ past_cpi <= 0) => cpi_change = Unbound
  /\ (Submitted /\ past_cpi_year # Unbound /\ latest_cpi <= 0) =>
       total_past = Unbound

\* C10 (as stated): when the offered years hold the current year minus 10,
\* the default position handed to the selectbox is a position of the
\* offered list, and the option there, the preselected year, is that year.
C10_DefaultYear ==
  (first /\ years # <<>> /\ (now - DefaultYearsBack) \in OfferedYears) =>
    /\ selectbox.shown
    /\ 0 <= selectbox.index
    /\ selectbox.index < Len(selectbox.options)
    /\ selectbox.options[selectbox.index + 1] = now - DefaultYearsBack
    /\ comparison_year = <<now - DefaultYearsBack>>

====
